---- MODULE Spec2Model ----
(***************************************************************************)
(* Model of src-tauri/icons/create_icon.py: the drawing routine            *)
(* create_terminal_icon(size) and the driver main().                       *)
(*                                                                         *)
(* An image is the record [width, height, ops]; ops is the sequence of     *)
(* drawing primitives applied to the canvas, each with the arguments the   *)
(* code hands to it.  Coordinates of an op are in 1/scale pixels: the two  *)
(* places where the code adds a measured text width (a float) use scale 10 *)
(* so that the fallback len * font_size * 0.6 stays exact.                 *)
(***************************************************************************)
EXTENDS Integers, Sequences, FiniteSets, TLC

VARIABLES
    fonts,      \* environment: the font files that ImageFont.truetype can load
    getlen,     \* environment: -1 when font.getlength raises, else the advance
                \* width of one character in pixels
    disk,       \* current working directory: file name -> content
    pc,         \* position of main()
    i,          \* index into Sizes of the size being processed
    icon,       \* the image drawn for the current size
    pending,    \* the saves main() still has to do for the current size
    log,        \* history of this run: draws, saves, the success message
    stdout,     \* lines printed
    failed,     \* name of the file whose save raised, "" when none did
    calls       \* history of direct calls of create_terminal_icon

vars == <<fonts, getlen, disk, pc, i, icon, pending, log, stdout, failed, calls>>

-----------------------------------------------------------------------------
(* Bounds *)

MaxSize == 8
MaxCalls == 2
MaxAdvance == 2

-----------------------------------------------------------------------------
(* Fonts *)

Monaco == "/System/Library/Fonts/Monaco.ttc"
DejaVu == "/usr/share/fonts/truetype/dejavu/DejaVuSansMono.ttf"
FontPaths == {Monaco, DejaVu}

\* ImageFont.truetype(path, size): raises when the file cannot be loaded
truetype(path, size) ==
    [raised |-> path \notin fonts, font |-> [face |-> path, size |-> size]]

\* ImageFont.load_default(): the built-in font, no size requested
load_default == [raised |-> FALSE, font |-> [face |-> "default", size |-> 0]]

Max(a, b) == IF a >= b THEN a ELSE b

font_size(size) == Max(12, size \div 25)

\* skips the DejaVuSansMono tier
BodyFont_NoSecondTier(size) ==
    LET m == truetype(Monaco, font_size(size))
    IN  IF ~m.raised THEN m ELSE load_default

\* the try / except / try / except chain of the body font
BodyFont(size) ==
    LET m == truetype(Monaco, font_size(size))
        d == truetype(DejaVu, font_size(size))
    IN  IF ~m.raised THEN m
        ELSE IF ~d.raised THEN d
        ELSE load_default

\* falls back to DejaVuSansMono at the label size instead of the body font
LogoFont_OwnFallback(size) ==
    LET m == truetype(Monaco, font_size(size) + 4)
        d == truetype(DejaVu, font_size(size) + 4)
    IN  IF ~m.raised THEN m
        ELSE IF ~d.raised THEN d
        ELSE BodyFont(size)

\* the try / except of the label font
LogoFont(size) ==
    LET m == truetype(Monaco, font_size(size) + 4)
    IN  IF ~m.raised THEN m ELSE BodyFont(size)

-----------------------------------------------------------------------------
(* Geometry of create_terminal_icon *)

margin(size) == size \div 10
terminal_rect(size) ==
    <<margin(size), margin(size), size - margin(size), size - margin(size)>>
title_bar_height(size) == size \div 8
title_bar_rect(size) ==
    <<margin(size) + 3, margin(size) + 3,
      size - margin(size) - 3, margin(size) + 3 + title_bar_height(size)>>
control_size(size) == size \div 30
control_y(size) == margin(size) + title_bar_height(size) \div 2

\* k = 0, 2, 4 for the close, minimize and maximize buttons
control_box(size, k) ==
    <<margin(size) + 20 + control_size(size) * k,
      control_y(size) - control_size(size) \div 2,
      margin(size) + 20 + control_size(size) * (k + 1),
      control_y(size) + control_size(size) \div 2>>

content_y(size) == margin(size) + title_bar_height(size) + 10
line_height(size) == size \div 20
y_pos(size) == content_y(size)
ai_y(size) == y_pos(size) + line_height(size) + 10
logo_y(size) == ai_y(size) + line_height(size) + 10

prompt_text == "$ "
command_text == "pH7Console --ai"
\* the first character of the source string is U+1F916, written here in ASCII
ai_text == "[robot] AI Ready"
logo_text == "pH7"

\* font.getlength(text) with its except branch, in tenths of a pixel
TextWidth10(text, size) ==
    IF getlen < 0 THEN Len(text) * font_size(size) * 6
    ELSE Len(text) * getlen * 10

prompt_width10(size) == TextWidth10(prompt_text, size)
total_width10(size) == TextWidth10(prompt_text \o command_text, size)
cursor_x10(size) == (margin(size) + 20) * 10 + total_width10(size) + 50
cursor_rect10(size) ==
    <<cursor_x10(size), y_pos(size) * 10,
      cursor_x10(size) + 20, (y_pos(size) + font_size(size)) * 10>>

NoFont == [face |-> "", size |-> 0]

Shape(prim, box) ==
    [prim |-> prim, box |-> box, scale |-> 1, text |-> "", font |-> NoFont]
Text(xy, text, font) ==
    [prim |-> "text", box |-> xy, scale |-> 1, text |-> text, font |-> font]

\* keeps the canvas of the previous call
Image_new_Reused(size) ==
    IF calls = <<>> THEN [width |-> size, height |-> size, ops |-> <<>>]
    ELSE calls[Len(calls)].img

\* Image.new('RGBA', (size, size), (0, 0, 0, 0))
Image_new(size) == [width |-> size, height |-> size, ops |-> <<>>]

\* the drawing calls, in the order of the source
DrawOps(size) ==
    LET font == BodyFont(size).font
        logo_font == LogoFont(size).font
    IN  << Shape("rounded_rectangle", terminal_rect(size)),
           Shape("rounded_rectangle", title_bar_rect(size)),
           Shape("ellipse", control_box(size, 0)),
           Shape("ellipse", control_box(size, 2)),
           Shape("ellipse", control_box(size, 4)),
           Text(<<margin(size) + 20, y_pos(size)>>, prompt_text, font),
           [prim |-> "text",
            box |-> <<(margin(size) + 20) * 10 + prompt_width10(size),
                      y_pos(size) * 10>>,
            scale |-> 10, text |-> command_text, font |-> font],
           [prim |-> "rectangle", box |-> cursor_rect10(size), scale |-> 10,
            text |-> "", font |-> NoFont],
           Text(<<margin(size) + 20, ai_y(size)>>, ai_text, font),
           Text(<<margin(size) + 20, logo_y(size)>>, logo_text, logo_font) >>

\* the result of a call: raised, or the image returned
create_terminal_icon(size) ==
    LET img == Image_new(size)
    IN  [raised |-> BodyFont(size).raised \/ LogoFont(size).raised,
         img |-> [img EXCEPT !.ops = img.ops \o DrawOps(size)]]

-----------------------------------------------------------------------------
(* main() *)

Sizes_Swapped == <<16, 32, 128, 64, 256, 512>>

Sizes == <<16, 32, 64, 128, 256, 512>>

Digit(d) ==
    CASE d = 0 -> "0" [] d = 1 -> "1" [] d = 2 -> "2" [] d = 3 -> "3"
      [] d = 4 -> "4" [] d = 5 -> "5" [] d = 6 -> "6" [] d = 7 -> "7"
      [] d = 8 -> "8" [] d = 9 -> "9"

RECURSIVE Str(_)
\* str() of a non-negative integer
Str(n) == IF n < 10 THEN Digit(n) ELSE Str(n \div 10) \o Digit(n % 10)

\* f'icon_{size}x{size}.png'
IconName(size) == "icon_" \o Str(size) \o "x" \o Str(size) \o ".png"

\* the copy for 32 is made in the iteration of 64
SavesFor_WrongSize(size) ==
    <<IconName(size)>> \o
    (IF size = 64 THEN <<"32x32.png">>
     ELSE IF size = 128 THEN <<"128x128.png", "128x128@2x.png">>
     ELSE IF size = 512 THEN <<"icon.png">>
     ELSE <<>>)

\* the second copy for 128 is left out
SavesFor_OneCopy(size) ==
    <<IconName(size)>> \o
    (IF size = 32 THEN <<"32x32.png">>
     ELSE IF size = 128 THEN <<"128x128.png">>
     ELSE IF size = 512 THEN <<"icon.png">>
     ELSE <<>>)

\* the file names saved in the iteration for size, in order
SavesFor(size) ==
    <<IconName(size)>> \o
    (IF size = 32 THEN <<"32x32.png">>
     ELSE IF size = 128 THEN <<"128x128.png", "128x128@2x.png">>
     ELSE IF size = 512 THEN <<"icon.png">>
     ELSE <<>>)

\* str.endswith
EndsWith(s, suffix) ==
    /\ Len(s) >= Len(suffix)
    /\ SubSeq(s, Len(s) - Len(suffix) + 1, Len(s)) = suffix

\* a save error is swallowed and the loop goes on
OnSaveError_Swallowed(next) == next

\* main() has no try around save: the error ends the run, wherever the loop
\* would have gone next
OnSaveError(next) == "crashed"

\* content of a file that was in the directory before the run
OldFile == [width |-> 1, height |-> 1, ops |-> <<>>]
\* content left by a save that failed after opening its file
PartialFile == [width |-> 0, height |-> 0, ops |-> <<>>]

PreNames == {"logo.png", "notes.txt", "icon.png", "shot.png.bak"}

RECURSIVE Flatten(_)
Flatten(ss) == IF ss = <<>> THEN <<>> ELSE Head(ss) \o Flatten(Tail(ss))

\* every name the directory can hold, in one directory order
DirOrder ==
    <<"shot.png.bak", "logo.png">> \o
    Flatten([k \in 1..Len(Sizes) |-> SavesFor(Sizes[k])]) \o
    <<"notes.txt">>

Reverse(s) == [k \in 1..Len(s) |-> s[Len(s) + 1 - k]]

\* os.listdir('.'): the names in the directory, in an arbitrary order
listdir(rev) ==
    SelectSeq(IF rev THEN Reverse(DirOrder) ELSE DirOrder,
              LAMBDA f : f \in DOMAIN disk)

Put(d, name, content) ==
    [f \in DOMAIN d \cup {name} |-> IF f = name THEN content ELSE d[f]]

Event(ev, size, name, img) ==
    [ev |-> ev, size |-> size, name |-> name, img |-> img]

NoImage == [width |-> 0, height |-> 0, ops |-> <<>>]

EnvInit ==
    /\ fonts \in SUBSET FontPaths
    /\ getlen \in -1..MaxAdvance

Init ==
    /\ EnvInit
    /\ disk \in {[f \in S |-> OldFile] : S \in SUBSET PreNames}
    /\ pc = "draw"
    /\ i = 1
    /\ icon = NoImage
    /\ pending = <<>>
    /\ log = <<>>
    /\ stdout = <<>>
    /\ failed = ""
    /\ calls = <<>>

\* line 100: icon = create_terminal_icon(size)
Draw ==
    /\ pc = "draw"
    /\ i <= Len(Sizes)
    /\ LET r == create_terminal_icon(Sizes[i])
       IN  IF r.raised
           THEN /\ pc' = "crashed"
                /\ UNCHANGED <<icon, pending, log>>
           ELSE /\ pc' = "save"
                /\ icon' = r.img
                /\ pending' = SavesFor(Sizes[i])
                /\ log' = Append(log, Event("draw", Sizes[i], "", r.img))
    /\ UNCHANGED <<fonts, getlen, disk, i, stdout, failed, calls>>

\* where the loop goes once the save at the head of pending is over
AfterSave ==
    IF Tail(pending) # <<>> THEN "save"
    ELSE IF i + 1 <= Len(Sizes) THEN "draw" ELSE "print"

\* lines 103-112: icon.save(name, 'PNG') succeeds
SaveOk ==
    /\ pc = "save"
    /\ pending # <<>>
    /\ disk' = Put(disk, Head(pending), icon)
    /\ log' = Append(log, Event("save", Sizes[i], Head(pending), icon))
    /\ pending' = Tail(pending)
    /\ i' = IF Tail(pending) = <<>> THEN i + 1 ELSE i
    /\ pc' = AfterSave
    /\ UNCHANGED <<fonts, getlen, icon, stdout, failed, calls>>

\* lines 103-112: icon.save(name, 'PNG') raises
SaveFail ==
    /\ pc = "save"
    /\ pending # <<>>
    /\ failed = ""
    /\ failed' = Head(pending)
    /\ disk' \in {disk, Put(disk, Head(pending), PartialFile)}
    /\ pc' = OnSaveError(AfterSave)
    /\ IF pc' = "crashed"
       THEN UNCHANGED <<pending, i>>
       ELSE /\ pending' = Tail(pending)
            /\ i' = IF Tail(pending) = <<>> THEN i + 1 ELSE i
    /\ UNCHANGED <<fonts, getlen, icon, log, stdout, calls>>

\* lines 114-115
PrintSuccess ==
    /\ pc = "print"
    /\ stdout' = stdout \o <<"Icons created successfully!", "Files created:">>
    /\ log' = Append(log, Event("print", 0, "", NoImage))
    /\ pc' = "list"
    /\ UNCHANGED <<fonts, getlen, disk, i, icon, pending, failed, calls>>

\* lines 116-118
PrintFiles ==
    /\ pc = "list"
    /\ \E rev \in BOOLEAN :
         LET png == SelectSeq(listdir(rev), LAMBDA f : EndsWith(f, ".png"))
         IN  stdout' = stdout \o [k \in 1..Len(png) |-> "  " \o png[k]]
    /\ pc' = "done"
    /\ UNCHANGED <<fonts, getlen, disk, i, icon, pending, log, failed, calls>>

Next == Draw \/ SaveOk \/ SaveFail \/ PrintSuccess \/ PrintFiles

Spec == Init /\ [][Next]_vars

-----------------------------------------------------------------------------
(* Direct calls of create_terminal_icon, in any sequence *)

CallSizes == (1..MaxSize) \cup {Sizes[k] : k \in 1..Len(Sizes)}

InitCalls ==
    /\ EnvInit
    /\ disk = [f \in {} |-> OldFile]
    /\ pc = "idle"
    /\ i = 1
    /\ icon = NoImage
    /\ pending = <<>>
    /\ log = <<>>
    /\ stdout = <<>>
    /\ failed = ""
    /\ calls = <<>>

Call(size) ==
    /\ pc = "idle"
    /\ Len(calls) < MaxCalls
    /\ LET r == create_terminal_icon(size)
       IN  calls' = Append(calls, [size |-> size, raised |-> r.raised,
                                   img |-> r.img])
    /\ UNCHANGED <<fonts, getlen, disk, pc, i, icon, pending, log, stdout,
                   failed>>

NextCalls == \E size \in CallSizes : Call(size)

SpecCalls == InitCalls /\ [][NextCalls]_vars

-----------------------------------------------------------------------------
(* Properties *)

Saves == SelectSeq(log, LAMBDA e : e.ev = "save")
SavedNames == [k \in 1..Len(Saves) |-> Saves[k].name]
Range(f) == {f[x] : x \in DOMAIN f}
WellFormed(box) == box[1] <= box[3] /\ box[2] <= box[4]
OpsOf(img, prim) == {img.ops[k] : k \in {j \in 1..Len(img.ops) : img.ops[j].prim = prim}}
TextOp(img, text) == CHOOSE o \in OpsOf(img, "text") : o.text = text

TenNames ==
    {"icon_16x16.png", "icon_32x32.png", "icon_64x64.png", "icon_128x128.png",
     "icon_256x256.png", "icon_512x512.png", "32x32.png", "128x128.png",
     "128x128@2x.png", "icon.png"}

\* C2: when main() has completed (no save failed), the names it has written
\* are exactly the ten fixed names, each written exactly once.
C2_TenFilesOnce ==
    pc = "done" =>
        /\ Range(SavedNames) = TenNames
        /\ Len(SavedNames) = 10

C2_Witness == pc = "done" /\ failed = "" /\ Len(Saves) = 10

\* the names printed after the line 'Files created:'
PrintedNames ==
    LET at == CHOOSE k \in 1..Len(stdout) : stdout[k] = "Files created:"
    IN  {Tail(Tail(stdout[k])) : k \in (at + 1)..Len(stdout)}

\* C3: on completion of main(), the names printed after 'Files created:' are
\* exactly the names of the PNG files this run wrote, whatever the directory
\* held before.
C3_PrintedAreWritten ==
    pc = "done" => PrintedNames = Range(SavedNames)

ClaimedOrder == <<16, 32, 64, 128, 256, 512>>
Draws == SelectSeq(log, LAMBDA e : e.ev = "draw")
\* the size of the last draw before position k of the log, 0 when there is none
LastDrawn(k) ==
    LET before == {j \in 1..(k - 1) : log[j].ev = "draw"}
    IN  IF before = {} THEN 0
        ELSE log[CHOOSE j \in before : \A l \in before : l <= j].size

\* C4: sizes are drawn in the order 16, 32, 64, 128, 256, 512; every save
\* for a size happens after that size is drawn and before the next size is
\* drawn; the success message comes after the last save for 512 and nothing
\* follows it.
C4_OneSizeAtATime ==
    /\ Len(Draws) <= Len(ClaimedOrder)
    /\ \A k \in 1..Len(Draws) : Draws[k].size = ClaimedOrder[k]
    /\ \A k \in 1..Len(log) :
           /\ log[k].ev = "save" => log[k].size = LastDrawn(k)
           /\ log[k].ev = "draw" /\ LastDrawn(k) # 0 =>
                  \E j \in 1..(k - 1) :
                      log[j].ev = "save" /\ log[j].size = LastDrawn(k)
           /\ log[k].ev = "print" =>
                  /\ k = Len(log)
                  /\ k > 1
                  /\ log[k - 1].ev = "save"
                  /\ log[k - 1].size = 512
                  /\ Len(Draws) = 6
    /\ (\E k \in 1..Len(stdout) : stdout[k] = "Icons created successfully!")
           => log # <<>> /\ log[Len(log)].ev = "print"

C4_Witness ==
    /\ pc = "done"
    /\ Len(log) = 17
    /\ log[7].ev = "save" /\ log[7].size = 64
    /\ log[8].ev = "draw" /\ log[8].size = 128

\* C5: the body font is Monaco if it loads, otherwise DejaVuSansMono if it
\* loads, otherwise the built-in default; the lookup never raises and the
\* call returns an image in every case.
C5_BodyFontFallback ==
    \A k \in 1..Len(calls) :
        LET c == calls[k]
            face == IF Monaco \in fonts THEN Monaco
                    ELSE IF DejaVu \in fonts THEN DejaVu
                    ELSE "default"
        IN  /\ ~c.raised
            /\ c.img.width = c.size
            /\ \A t \in {prompt_text, command_text, ai_text} :
                   /\ \E o \in OpsOf(c.img, "text") : o.text = t
                   /\ TextOp(c.img, t).font.face = face
                   /\ face # "default" =>
                          TextOp(c.img, t).font.size = Max(12, c.size \div 25)

C5_Witness ==
    /\ Len(calls) = 1
    /\ fonts = {DejaVu}
    /\ TextOp(calls[1].img, prompt_text).font.face = DejaVu

SaveOrder ==
    <<"icon_16x16.png", "icon_32x32.png", "32x32.png", "icon_64x64.png",
      "icon_128x128.png", "128x128.png", "128x128@2x.png", "icon_256x256.png",
      "icon_512x512.png", "icon.png">>

\* C6: once a save has failed the run is over: the files written are exactly
\* those before the failing one in the save order, each still on disk as
\* written, and the success message is not printed.
C6_SaveFailureEndsRun ==
    failed # "" =>
        /\ pc = "crashed"
        /\ \E n \in 1..Len(SaveOrder) :
               /\ SaveOrder[n] = failed
               /\ SavedNames = SubSeq(SaveOrder, 1, n - 1)
        /\ \A k \in 1..Len(Saves) :
               /\ Saves[k].name \in DOMAIN disk
               /\ disk[Saves[k].name] = Saves[k].img
        /\ stdout = <<>>

C6_Witness ==
    /\ failed = "128x128@2x.png"
    /\ pc = "crashed"
    /\ Len(Saves) = 6
    /\ "128x128@2x.png" \in DOMAIN disk
    /\ disk["128x128@2x.png"] = PartialFile

Copies ==
    {<<"32x32.png", "icon_32x32.png">>, <<"128x128.png", "icon_128x128.png">>,
     <<"128x128@2x.png", "icon_128x128.png">>, <<"icon.png", "icon_512x512.png">>}

\* C7: every file written holds the image drawn in its iteration, of that
\* iteration's width and height, and each specially named file holds the
\* same image as the size variant it accompanies.
C7_CopiesMatch ==
    /\ \A k \in 1..Len(log) :
           log[k].ev = "save" =>
               /\ log[k].img.width = log[k].size
               /\ log[k].img.height = log[k].size
               /\ \E j \in 1..(k - 1) :
                      /\ log[j].ev = "draw"
                      /\ log[j].size = LastDrawn(k)
                      /\ log[j].img = log[k].img
    /\ \A c \in Copies :
           \A k \in 1..Len(Saves) :
               Saves[k].name = c[1] =>
                   \E j \in 1..(k - 1) :
                       /\ Saves[j].name = c[2]
                       /\ Saves[j].img = Saves[k].img
                       /\ Saves[j].size = Saves[k].size
    /\ pc = "done" =>
           \A c \in Copies : disk[c[1]] = disk[c[2]]

C7_Witness ==
    /\ pc = "done"
    /\ disk["icon.png"].width = 512
    /\ disk["icon.png"] = disk["icon_512x512.png"]
    /\ disk["128x128@2x.png"].width = 128

\* C8: for every positive size, every box handed to a drawing primitive
\* (the two rounded rectangles, the three ellipses, the cursor rectangle)
\* has x0 <= x1 and y0 <= y1.
C8_BoxesWellFormed ==
    \A k \in 1..Len(calls) :
        \A o \in Range(calls[k].img.ops) :
            o.prim \in {"rounded_rectangle", "ellipse", "rectangle"}
                => WellFormed(o.box)

\* the top-left anchors of the control dots, the prompt, the AI line and the
\* label, all in whole pixels
Anchors(img) ==
    {<<o.box[1], o.box[2]>> : o \in OpsOf(img, "ellipse")} \cup
    {<<TextOp(img, t).box[1], TextOp(img, t).box[2]>> :
        t \in {prompt_text, ai_text, logo_text}}

\* C9: for every size of the fixed list, the anchors of the elements drawn
\* inside the terminal window lie within the window rectangle
\* [size//10, size - size//10] in x and in y.
C9_AnchorsInsideWindow ==
    \A k \in 1..Len(Draws) :
        LET s == Draws[k].size
        IN  \A a \in Anchors(Draws[k].img) :
                /\ s \div 10 <= a[1] /\ a[1] <= s - s \div 10
                /\ s \div 10 <= a[2] /\ a[2] <= s - s \div 10

\* C10: the label font is Monaco at font_size + 4 if that loads, otherwise
\* the font chosen for the body text at font_size = max(12, size // 25); with
\* only DejaVuSansMono available the label is DejaVuSansMono at font_size.
C10_LabelFont ==
    \A k \in 1..Len(calls) :
        LET c == calls[k]
            fs == Max(12, c.size \div 25)
            label == TextOp(c.img, logo_text).font
        IN  /\ ~c.raised
            /\ Monaco \in fonts => label = [face |-> Monaco, size |-> fs + 4]
            /\ Monaco \notin fonts => label = TextOp(c.img, prompt_text).font
            /\ fonts = {DejaVu} => label = [face |-> DejaVu, size |-> fs]

C10_Witness ==
    /\ Len(calls) = 1
    /\ fonts = {DejaVu}
    /\ calls[1].size = 512
    /\ TextOp(calls[1].img, logo_text).font = [face |-> DejaVu, size |-> 20]

====
